---- MODULE Spec2Model ----
(***************************************************************************)
(* Model of the live-video doubt-chat application.                         *)
(*                                                                         *)
(*  - Question triage: the chat dialog (components/ChatDialog.tsx), the    *)
(*    chat input (ChatInput) and the /api/chat route (app/api/chat/        *)
(*    route.ts) with its tolerant JSON extraction and the CSV logger.      *)
(*  - Transcript aggregation: the useSonioxTranscription hook.             *)
(*  - Views of the transcript: the context window of the chat dialog and   *)
(*    the sentences of components/TranscriptPanel.tsx.                     *)
(*  - The session: app/page.tsx, the two players and the simulated         *)
(*    transcription used when no recognizer key is configured.             *)
(*  - The transcript as React state: queued setTranscript calls, renders   *)
(*    and the arrays handed to readers.                                    *)
(*                                                                         *)
(* Strings returned by the language-model services are modelled as         *)
(* sequences of lexemes.  Every lexeme stands for a run of characters on   *)
(* which the string operations of extractJsonResponse (trim, startsWith,   *)
(* split, indexOf, lastIndexOf, substring, JSON.parse) behave alike:       *)
(*   "{" "}"   a brace (an inner "{" carries its key, an inner lexeme its  *)
(*             separating comma)                                           *)
(*   "FENCE"   three backticks, with or without a language tag             *)
(*   "NL"      a line break (the only white space that is kept)            *)
(*   "text"    prose without braces, back-ticks or line breaks             *)
(*   "null"    the JSON literal null                                       *)
(*   a field lexeme: a brace-free list of "key": value pairs               *)
(* Times are integers in milliseconds, as delivered by the recognizer;     *)
(* where the code compares seconds held as doubles, the comparison is      *)
(* modelled with its rounding (WithinDedupWindow).                         *)
(***************************************************************************)
EXTENDS Integers, Sequences, FiniteSets, TLC

VARIABLES
    pc,              \* position of the question in flight
    asked,           \* questions posted so far
    caller,          \* who posted the request in flight: "ui", "client", "none"
    request,         \* the ChatRequest body in flight
    classification,  \* route.ts: const classification
    result,          \* route.ts: const result (the generator's parsed output)
    response,        \* the HTTP response of /api/chat
    classifierCalls, \* calls to gpt-4.1-nano made by the request in flight
    generatorCalls,  \* calls to gpt-4.1-mini made by the request in flight
    upstreamFailed,  \* a call of the request in flight was rejected
    csvLog,          \* rows appended to data/chat_logs.csv
    messages,        \* ChatDialog: messages
    isLoading,       \* ChatDialog: isLoading
    content,         \* input of the extraction run (SpecParse)
    parsed,          \* result of the extraction run (SpecParse)
    transcript,      \* useSonioxTranscription: transcript
    lastOp,          \* the operation that ran last on the transcript
    partialResult,         \* the recognition result the recognizer is delivering
    delivery,        \* "none", or how partialResult relates to the result handled before
    recent,          \* ChatDialog: what getRecentTranscript returned last
    sentences,       \* TranscriptPanel: processedTranscript
    videoSource,     \* page.tsx: videoSource, "none" for null
    apiKey,          \* NEXT_PUBLIC_SONIOX_API_KEY is set
    isTranscribing,  \* useSonioxTranscription: isTranscribing
    paused,          \* the video element's paused
    videoTime,       \* the video's currentTime, passed on as currentVideoTime
    simulation,      \* simulationIntervalRef with the variables its callback closes over
    cleared,         \* what the last source change removed from the transcript
    sonioxClient,    \* sonioxClientRef: "none" for null, or "running"
    orphans,         \* timers and clients still running that no ref points to
    pendingStart,    \* a start of the Soniox client awaiting its capture, import or start
    updates,         \* the setTranscript calls React has queued for the next render
    snapshot         \* the transcript array a reader was handed

triageVars == <<pc, asked, caller, request, classification, result, response, classifierCalls,
                generatorCalls, upstreamFailed, csvLog, messages, isLoading>>
parseVars == <<content, parsed>>
transcriptVars == <<transcript, lastOp, partialResult, delivery>>
viewVars == <<recent, sentences>>
sessionVars == <<videoSource, apiKey, isTranscribing, paused, videoTime, simulation, cleared,
                 sonioxClient, orphans, pendingStart>>
updateVars == <<updates, snapshot>>
vars == <<pc, asked, caller, request, classification, result, response, classifierCalls,
          generatorCalls, upstreamFailed, csvLog, messages, isLoading,
          content, parsed, transcript, lastOp, partialResult, delivery,
          recent, sentences,
          videoSource, apiKey, isTranscribing, paused, videoTime, simulation, cleared,
          sonioxClient, orphans, pendingStart, updates, snapshot>>

(***************************************************************************)
(* Bounds                                                                  *)
(***************************************************************************)
MaxContentLen == 3   \* lexemes in one service output
MaxQuestions == 2    \* questions submitted in one session
MaxBatch == 2        \* tokens in one recognition result
MaxTranscript == 3   \* tokens held by the transcript
MaxSimulated == 2    \* simulated segments held by the transcript
MaxOrphans == 1      \* sources left running without a ref to them
MaxPending == 2      \* setTranscript calls queued between two renders

(***************************************************************************)
(* JavaScript values                                                       *)
(***************************************************************************)
FieldNames == {"is_genuine", "category", "confidence", "reason", "answer"}

EmptyFields == [k \in FieldNames |-> "undefined"]

JsNull == [type |-> "null", f |-> EmptyFields]

JsObject(fields) == [type |-> "object", f |-> fields]

SyntaxError == [type |-> "SyntaxError", f |-> EmptyFields]

\* a local that has not been assigned yet
NotYet == [type |-> "undefined", f |-> EmptyFields]

\* JavaScript truthiness of the abstract values used for reply and answer
Truthy(v) == v \notin {"undefined", "null", "empty", "false"}

\* Reading a property of null throws a TypeError
PropertyAccessThrows(v) == v.type = "null"

(***************************************************************************)
(* Service outputs                                                         *)
(***************************************************************************)
Structural == {"{", "}", "FENCE", "NL", "text", "null"}

ClassifierFields == {"subject_based", "guidance", "noise", "follow_up"}

GeneratorFields == {"ans_str", "ans_empty", "ans_null", "ans_num"}

FieldLexemes == ClassifierFields \cup GeneratorFields

\* the key/value pairs a field lexeme stands for
FieldsOf(x) ==
    IF x \in ClassifierFields
    THEN [is_genuine |-> IF x = "noise" THEN "false" ELSE "true",
          category |-> x, confidence |-> "num", reason |-> "str",
          answer |-> "undefined"]
    ELSE [is_genuine |-> "true", category |-> "subject_doubt",
          confidence |-> "num", reason |-> "str",
          answer |-> CASE x = "ans_str" -> "str"
                       [] x = "ans_empty" -> "empty"
                       [] x = "ans_null" -> "null"
                       [] OTHER -> "num"]

Contents(alphabet) == UNION {[1..n -> alphabet] : n \in 0..MaxContentLen}

ClassifierContents == Contents(Structural \cup ClassifierFields)

GeneratorContents == Contents(Structural \cup GeneratorFields)

(***************************************************************************)
(* String operations of extractJsonResponse, on lexeme sequences           *)
(***************************************************************************)
RECURSIVE TrimStart(_)
TrimStart(s) ==
    IF s # <<>> /\ Head(s) = "NL" THEN TrimStart(Tail(s)) ELSE s

RECURSIVE TrimEnd(_)
TrimEnd(s) ==
    IF s # <<>> /\ s[Len(s)] = "NL" THEN TrimEnd(SubSeq(s, 1, Len(s) - 1)) ELSE s

\* String.prototype.trim
Trim(s) == TrimEnd(TrimStart(s))

StartsWith(s, x) == s # <<>> /\ s[1] = x

EndsWith(s, x) == s # <<>> /\ s[Len(s)] = x

\* number of occurrences of x: line.split(x).length - 1
Count(s, x) == Cardinality({i \in 1..Len(s) : s[i] = x})

\* String.prototype.indexOf, 1-based (0 when x does not occur)
IndexOf(s, x) ==
    IF \E i \in 1..Len(s) : s[i] = x
    THEN CHOOSE i \in 1..Len(s) : s[i] = x /\ \A j \in 1..(i - 1) : s[j] # x
    ELSE 0

\* String.prototype.lastIndexOf, 1-based (0 when x does not occur)
LastIndexOf(s, x) ==
    IF \E i \in 1..Len(s) : s[i] = x
    THEN CHOOSE i \in 1..Len(s) : s[i] = x /\ \A j \in (i + 1)..Len(s) : s[j] # x
    ELSE 0

\* cleanContent.split('\n')
RECURSIVE SplitLines(_)
SplitLines(s) ==
    LET i == IndexOf(s, "NL") IN
    IF i = 0 THEN <<s>>
    ELSE <<SubSeq(s, 1, i - 1)>> \o SplitLines(SubSeq(s, i + 1, Len(s)))

\* jsonLines.join('\n')
RECURSIVE JoinLines(_)
JoinLines(lines) ==
    IF lines = <<>> THEN <<>>
    ELSE IF Len(lines) = 1 THEN lines[1]
    ELSE lines[1] \o <<"NL">> \o JoinLines(Tail(lines))

(***************************************************************************)
(* JSON.parse on lexeme sequences: white space is skipped; a document is   *)
(* the literal null or one object whose braces balance and which holds     *)
(* only field lexemes and nested objects.  A key given twice keeps the     *)
(* last value.                                                              *)
(***************************************************************************)
Merge(fields, x) ==
    [k \in FieldNames |-> IF FieldsOf(x)[k] # "undefined" THEN FieldsOf(x)[k]
                          ELSE fields[k]]

RECURSIVE ParseObject(_, _, _, _)
ParseObject(t, i, depth, fields) ==
    IF i > Len(t) THEN (IF depth = 0 THEN JsObject(fields) ELSE SyntaxError)
    ELSE IF t[i] = "{"
         THEN (IF depth = 0 /\ i > 1 THEN SyntaxError
               ELSE ParseObject(t, i + 1, depth + 1, fields))
    ELSE IF t[i] = "}"
         THEN (IF depth = 0 THEN SyntaxError
               ELSE ParseObject(t, i + 1, depth - 1, fields))
    ELSE IF t[i] \in FieldLexemes
         THEN (IF depth = 0 THEN SyntaxError
               ELSE ParseObject(t, i + 1, depth,
                                IF depth = 1 THEN Merge(fields, t[i]) ELSE fields))
    ELSE SyntaxError

JSONparse(s) ==
    LET t == SelectSeq(s, LAMBDA x : x # "NL") IN
    IF t = <<>> THEN SyntaxError
    ELSE IF t = <<"null">> THEN JsNull
    ELSE ParseObject(t, 1, 0, EmptyFields)

(***************************************************************************)
(* extractJsonResponse                                                      *)
(***************************************************************************)
\* route.ts 446-457: the loop over the lines of a fenced answer
RECURSIVE FenceLines(_, _, _, _)
FenceLines(lines, i, jsonLines, inJson) ==
    IF i > Len(lines) THEN jsonLines
    ELSE LET line == lines[i] IN
         IF StartsWith(Trim(line), "FENCE")
         THEN FenceLines(lines, i + 1, jsonLines, ~inJson)
         ELSE IF inJson \/ StartsWith(Trim(line), "{") \/ Len(jsonLines) > 0
              THEN IF EndsWith(Trim(line), "}") /\ Count(line, "}") >= Count(line, "{")
                   THEN Append(jsonLines, line)
                   ELSE FenceLines(lines, i + 1, Append(jsonLines, line), inJson)
              ELSE FenceLines(lines, i + 1, jsonLines, inJson)

\* route.ts 439-459: the content handed to the strict parse
CleanContent(c) ==
    IF StartsWith(Trim(c), "FENCE")
    THEN JoinLines(FenceLines(SplitLines(Trim(c)), 1, <<>>, FALSE))
    ELSE Trim(c)

DefaultResponse ==
    JsObject([is_genuine |-> "false", category |-> "error", confidence |-> "num",
              reason |-> "str", answer |-> "null"])

\* route.ts 463-488: the catch block
FallbackExtract(c) ==
    LET start == IndexOf(c, "{")
        end == LastIndexOf(c, "}")
    IN IF start # 0 /\ end >= start
       THEN LET r == JSONparse(SubSeq(c, start, end)) IN
            IF r.type = "SyntaxError" THEN DefaultResponse ELSE r
       ELSE DefaultResponse

extractJsonResponse(c) ==
    LET r == JSONparse(CleanContent(c)) IN
    IF r.type = "SyntaxError" THEN FallbackExtract(c) ELSE r


(***************************************************************************)
(* Question triage: requests                                               *)
(***************************************************************************)
Messages == {"Newton ka second law kya hai?", "haan sir"}

\* <<recentTranscript, pdfContext>> of a request
Contexts == {<<"", "">>, <<"Aaj hum Newton ke laws padhenge.", "F = ma">>}

\* ChatDialog's language prop
UiLanguages == {"en", "hi", "fr"}

\* ChatRequest.language: 'hindi' | 'english', or left out of the body
RequestLanguages == {"hindi", "english", "undefined"}

NoRequest ==
    [message |-> "", videoTimestamp |-> 0, recentTranscript |-> "", language |-> "undefined",
     pdfContext |-> ""]

\* ChatDialog.tsx 183
apiLanguage(language) ==
    IF language = "en" THEN "english" ELSE IF language = "hi" THEN "hindi" ELSE "english"

\* route.ts 73: language = 'hindi' in the destructuring of the body
Language(req) == IF req.language = "undefined" THEN "hindi" ELSE req.language

\* route.ts 164 (the Devanagari sentence, transliterated)
HindiAck == "Yah abhi class mein samjhaya gaya tha. Kripya dhyan se sunen."

EnglishAck == "This was just explained in the class. Please pay attention."

\* route.ts 142 (transliterated)
Clarify == "Kripya apna prashn spasht karen."

\* ChatDialog.tsx 221 (transliterated)
AskSubject == "Kripya vishay se sambandhit prashn poochhen. (Please ask subject-related questions.)"

RetryLater == "Sorry, I couldn't process your question. Please try again later."

(***************************************************************************)
(* Responses of /api/chat.  A key whose value is "undefined" is not in the *)
(* body: JSON.stringify leaves such keys out.                              *)
(***************************************************************************)
NoClassification ==
    [is_genuine |-> "undefined", category |-> "undefined", confidence |-> "undefined",
     reason |-> "undefined"]

NoResponse ==
    [status |-> 0, reply |-> "undefined", hasClassification |-> FALSE,
     classification |-> NoClassification, error |-> "undefined"]

\* route.ts 104-111 and 189
OkResponse(reply, c) ==
    [status |-> 200, reply |-> reply, hasClassification |-> TRUE,
     classification |-> [is_genuine |-> c.f.is_genuine, category |-> c.f.category,
                         confidence |-> c.f.confidence, reason |-> c.f.reason],
     error |-> "undefined"]

\* route.ts 191-204
FailureResponse ==
    [status |-> 500, reply |-> "undefined", hasClassification |-> FALSE,
     classification |-> NoClassification, error |-> "Failed to process your request"]

\* csvLogger.ts 67-85, for a writable data directory
logChatInteraction(log, isGenuine, c, resp) ==
    Append(log, [isGenuine |-> isGenuine, category |-> c.f.category, response |-> resp])

\* acknowledges everything that is not noise
simpleReplyUnlessNoise(c, language) ==
    IF c.f.category # "noise"
    THEN (IF language = "hindi" THEN HindiAck ELSE EnglishAck)
    ELSE "null"

\* ignores the language
simpleReplyHindiOnly(c, language) ==
    IF c.f.category = "guidance" THEN HindiAck ELSE "null"

\* route.ts 161-166
simpleReply(c, language) ==
    IF c.f.category = "guidance"
    THEN (IF language = "hindi" THEN HindiAck ELSE EnglishAck)
    ELSE "null"

\* route.ts 142
answerReply(r) == IF Truthy(r.f.answer) THEN r.f.answer ELSE Clarify

\* skips the expensive model for the two named cheap categories only
callsExpensiveModelUnlessCheap(c) == c.f.category \notin {"guidance", "noise"}

\* route.ts 114
callsExpensiveModel(c) == c.f.category = "subject_based"

\* what extractJsonResponse can return for the outputs of each service
ClassifierResults == {extractJsonResponse(c) : c \in ClassifierContents}

GeneratorResults == {extractJsonResponse(c) : c \in GeneratorContents}


(***************************************************************************)
(* Question triage: the chat dialog and the route handler                  *)
(***************************************************************************)
UserMessage(m) == [role |-> "user", content |-> m]

AssistantMessage(m) == [role |-> "assistant", content |-> m]

SystemMessage(m) == [role |-> "system", content |-> m]

InitTriage ==
    /\ pc = "idle"
    /\ asked = 0
    /\ caller = "none"
    /\ request = NoRequest
    /\ classification = NotYet
    /\ result = NotYet
    /\ response = NoResponse
    /\ classifierCalls = 0
    /\ generatorCalls = 0
    /\ upstreamFailed = FALSE
    /\ csvLog = <<>>
    /\ messages = <<>>
    /\ isLoading = FALSE

\* a new request starts with fresh locals in the route handler
Post(who, req) ==
    /\ pc' = "sent"
    /\ asked' = asked + 1
    /\ caller' = who
    /\ request' = req
    /\ classification' = NotYet
    /\ result' = NotYet
    /\ response' = NoResponse
    /\ classifierCalls' = 0
    /\ generatorCalls' = 0
    /\ upstreamFailed' = FALSE

\* submits whatever the loading state is
handleSubmitWhileLoading(m) == m # ""

\* part_002 36: message.trim() && !isLoading
handleSubmit(m) == m # "" /\ ~isLoading

\* sends the last message of the conversation along as context
requestBodyWithHistory(m, ctx, language) ==
    [message |-> m, videoTimestamp |-> videoTime, recentTranscript |-> ctx[1],
     language |-> apiLanguage(language),
     pdfContext |-> IF messages = <<>> THEN ctx[2] ELSE messages[Len(messages)].content]

\* ChatDialog.tsx 186-198: the body of the request
requestBody(m, ctx, language) ==
    [message |-> m, videoTimestamp |-> videoTime, recentTranscript |-> ctx[1],
     language |-> apiLanguage(language), pdfContext |-> ctx[2]]

\* ChatInput.handleSubmit and ChatDialog.handleSendMessage up to the fetch.
\* The route is modelled serving one request at a time: the dialog's request
\* waits while the other client's is served.
handleSendMessage(m, ctx, language) ==
    /\ pc = "idle" \/ caller = "ui"
    /\ asked < MaxQuestions
    /\ handleSubmit(m)
    /\ messages' = Append(messages, UserMessage(m))
    /\ isLoading' = TRUE
    /\ Post("ui", requestBody(m, ctx, language))
    /\ UNCHANGED <<csvLog, parseVars, transcriptVars,
                   viewVars, sessionVars, updateVars>>

\* route.ts 11-18 and 67-75: another HTTP client (such as the test script)
\* posts a ChatRequest; language is an optional field of the body
apiRequest(m, ctx, language) ==
    /\ pc = "idle"
    /\ asked < MaxQuestions
    /\ Post("client", [message |-> m, videoTimestamp |-> 0, recentTranscript |-> ctx[1],
                       language |-> language, pdfContext |-> ctx[2]])
    /\ UNCHANGED <<csvLog, messages, isLoading, parseVars, transcriptVars,
                   viewVars, sessionVars, updateVars>>

\* asks the two models at once
POSTBothModels ==
    /\ pc = "sent"
    /\ pc' = "await_classifier"
    /\ classifierCalls' = classifierCalls + 1
    /\ generatorCalls' = generatorCalls + 1
    /\ UNCHANGED <<asked, caller, request, classification, result, response,
                   upstreamFailed, csvLog, messages, isLoading, parseVars, transcriptVars,
                   viewVars, sessionVars, updateVars>>

\* route.ts 65-91: the handler starts and awaits the classifier
POST ==
    /\ pc = "sent"
    /\ pc' = "await_classifier"
    /\ classifierCalls' = classifierCalls + 1
    /\ UNCHANGED <<asked, caller, request, classification, result, response, generatorCalls,
                   upstreamFailed, csvLog, messages, isLoading, parseVars, transcriptVars,
                   viewVars, sessionVars, updateVars>>

\* route.ts 191-204 after a rejected call to a service
UpstreamRejects ==
    /\ pc \in {"await_classifier", "await_generator"}
    /\ upstreamFailed' = TRUE
    /\ response' = FailureResponse
    /\ pc' = "responded"
    /\ UNCHANGED <<asked, caller, request, classification, result, classifierCalls,
                   generatorCalls, csvLog, messages, isLoading, parseVars, transcriptVars,
                   viewVars, sessionVars, updateVars>>

\* route.ts 93-189: the classifier answered; classify and route
ClassifierResolves(c) ==
    /\ pc = "await_classifier"
    /\ classification' = c
    /\ IF PropertyAccessThrows(c)
       THEN /\ response' = FailureResponse
            /\ pc' = "responded"
            /\ UNCHANGED <<generatorCalls, csvLog>>
       ELSE IF callsExpensiveModel(c)
       THEN /\ generatorCalls' = generatorCalls + 1
            /\ pc' = "await_generator"
            /\ UNCHANGED <<response, csvLog>>
       ELSE /\ response' = OkResponse(simpleReply(c, Language(request)), c)
            /\ csvLog' = logChatInteraction(csvLog, "false", c,
                                            simpleReply(c, Language(request)))
            /\ pc' = "responded"
            /\ UNCHANGED generatorCalls
    /\ UNCHANGED <<asked, caller, request, result, classifierCalls, upstreamFailed,
                   messages, isLoading, parseVars, transcriptVars,
                   viewVars, sessionVars, updateVars>>

\* route.ts 133-156 and 186-189: the generator answered
GeneratorResolves(r) ==
    /\ pc = "await_generator"
    /\ result' = r
    /\ IF PropertyAccessThrows(r)
       THEN /\ response' = FailureResponse
            /\ UNCHANGED csvLog
       ELSE /\ response' = OkResponse(answerReply(r), classification)
            /\ csvLog' = logChatInteraction(csvLog, "true", classification,
                             IF Truthy(r.f.answer) THEN r.f.answer ELSE "null")
    /\ pc' = "responded"
    /\ UNCHANGED <<asked, caller, request, classification, classifierCalls,
                   generatorCalls, upstreamFailed, messages, isLoading, parseVars, transcriptVars,
                   viewVars, sessionVars, updateVars>>

\* forgets the response.ok test
ResponseMessageNoStatus(r) ==
    IF Truthy(r.reply) THEN AssistantMessage(r.reply) ELSE SystemMessage(AskSubject)

\* ChatDialog.tsx 201-240: the message appended for a response
ResponseMessage(r) ==
    IF r.status # 200 THEN AssistantMessage(RetryLater)
    ELSE IF Truthy(r.reply) THEN AssistantMessage(r.reply)
    ELSE SystemMessage(AskSubject)

\* appends a message only when there is a reply
handleResponseOnlyForReply ==
    /\ pc = "responded"
    /\ caller = "ui"
    /\ messages' = IF response.status = 200 /\ ~Truthy(response.reply)
                   THEN messages
                   ELSE Append(messages, ResponseMessage(response))
    /\ isLoading' = FALSE
    /\ pc' = "idle"
    /\ UNCHANGED <<asked, caller, request, classification, result, response, classifierCalls,
                   generatorCalls, upstreamFailed, csvLog, parseVars, transcriptVars,
                   viewVars, sessionVars, updateVars>>

\* ChatDialog.handleSendMessage after the fetch
handleResponse ==
    /\ pc = "responded"
    /\ caller = "ui"
    /\ messages' = Append(messages, ResponseMessage(response))
    /\ isLoading' = FALSE
    /\ pc' = "idle"
    /\ UNCHANGED <<asked, caller, request, classification, result, response, classifierCalls,
                   generatorCalls, upstreamFailed, csvLog, parseVars, transcriptVars,
                   viewVars, sessionVars, updateVars>>

\* clears the loading state at the end of the try block only
fetchRejectsStillLoading ==
    /\ pc = "sent"
    /\ caller = "ui"
    /\ messages' = Append(messages, AssistantMessage(RetryLater))
    /\ pc' = "idle"
    /\ UNCHANGED <<asked, caller, request, classification, result, response, classifierCalls,
                   generatorCalls, upstreamFailed, csvLog, isLoading, parseVars,
                   transcriptVars, viewVars, sessionVars, updateVars>>

\* ChatDialog.tsx 227-240: the fetch itself is rejected (no connection)
fetchRejects ==
    /\ pc = "sent"
    /\ caller = "ui"
    /\ messages' = Append(messages, AssistantMessage(RetryLater))
    /\ isLoading' = FALSE
    /\ pc' = "idle"
    /\ UNCHANGED <<asked, caller, request, classification, result, response, classifierCalls,
                   generatorCalls, upstreamFailed, csvLog, parseVars, transcriptVars,
                   viewVars, sessionVars, updateVars>>

\* the other client reads the response
clientReceives ==
    /\ pc = "responded"
    /\ caller = "client"
    /\ pc' = "idle"
    /\ UNCHANGED <<asked, caller, request, classification, result, response, classifierCalls,
                   generatorCalls, upstreamFailed, csvLog, messages, isLoading, parseVars, transcriptVars,
                   viewVars, sessionVars, updateVars>>

\* no extraction run of its own
IdleParse ==
    /\ content = <<>>
    /\ parsed = NotYet

NoResult == [hasTokens |-> FALSE, tokens |-> <<>>]

\* no view of the transcript computed yet
NoWindow == [called |-> FALSE, horizon |-> 0, segments |-> <<>>, text |-> <<>>]
NoSentences == [called |-> FALSE, list |-> <<>>]

IdleViews ==
    /\ recent = NoWindow
    /\ sentences = NoSentences

\* no reader holds a transcript array
NoSnapshot == [held |-> FALSE, current |-> FALSE, array |-> <<>>, seen |-> <<>>]

\* every setTranscript call has been rendered
IdleUpdates ==
    /\ updates = <<>>
    /\ snapshot = NoSnapshot

\* simulationIntervalRef.current = null
NoSimulation == [kind |-> "none", segmentIndex |-> 0, currentTime |-> 0, spent |-> FALSE]

NoOrphans == [timers |-> <<>>, clients |-> 0]

\* a video is selected and playing, and the recognizer is transcribing it
Watching ==
    /\ videoSource = "local"
    /\ apiKey = TRUE
    /\ isTranscribing = TRUE
    /\ paused = FALSE
    /\ videoTime = 0
    /\ simulation = NoSimulation
    /\ cleared = "nothing"
    /\ sonioxClient = "running"
    /\ orphans = NoOrphans
    /\ pendingStart = "none"

\* useSonioxTranscription 25: useState([])
InitTranscript ==
    /\ transcript = <<>>
    /\ lastOp = "none"
    /\ partialResult = NoResult
    /\ delivery = "none"

NextTriage ==
    \/ \E m \in Messages, ctx \in Contexts, l \in UiLanguages : handleSendMessage(m, ctx, l)
    \/ \E m \in Messages, ctx \in Contexts, l \in RequestLanguages : apiRequest(m, ctx, l)
    \/ POST
    \/ UpstreamRejects
    \/ \E c \in ClassifierResults : ClassifierResolves(c)
    \/ \E r \in GeneratorResults : GeneratorResolves(r)
    \/ handleResponse
    \/ fetchRejects
    \/ clientReceives

Init == InitTriage /\ IdleParse /\ InitTranscript /\ IdleViews /\ Watching /\ IdleUpdates

Spec == Init /\ [][NextTriage]_vars

\* The steps of the dialog and of the route are taken when they can be: the
\* fetch reaches the route or is rejected, and a response is read.  Nothing
\* makes the language-model service settle a call.
SpecLive ==
    Init /\ [][NextTriage]_vars
         /\ WF_vars(POST \/ fetchRejects)
         /\ WF_vars(handleResponse)
         /\ WF_vars(clientReceives)


(***************************************************************************)
(* The extraction on its own: one run of extractJsonResponse on one        *)
(* service output                                                          *)
(***************************************************************************)
InitParse ==
    /\ content \in ClassifierContents \cup GeneratorContents
    /\ parsed = NotYet

Extract ==
    /\ parsed = NotYet
    /\ parsed' = extractJsonResponse(content)
    /\ UNCHANGED <<content, triageVars, transcriptVars, viewVars, sessionVars, updateVars>>

InitP == InitTriage /\ InitParse /\ InitTranscript /\ IdleViews /\ Watching /\ IdleUpdates

SpecParse == InitP /\ [][Extract]_vars

(***************************************************************************)
(* Properties of the question triage                                       *)
(***************************************************************************)
Classified == classification.type # "undefined"

\* the route handler has returned its response for the question in flight
Returned == pc \in {"responded", "idle"} /\ response.status # 0

IsString(v) == v \in {HindiAck, EnglishAck, Clarify, "str", "empty"}

\* C1: within one request the answer generator is called exactly once when
\* the classifier's category is subject_based and never for any other
\* category, nor before the classification exists.
GeneratorOnlyForSubjectBased ==
    generatorCalls =
        IF Classified /\ classification.f.category = "subject_based" THEN 1 ELSE 0

GeneratorCalledOnce ==
    /\ Returned
    /\ classification.f.category = "subject_based"
    /\ generatorCalls = 1

\* C2: every outcome of a question returns one shape: a reply that is a
\* string or null and a classification carrying is_genuine, category,
\* confidence and reason.  Stated for the responses the route returns
\* normally; the failure response carries neither field.
UniformEnvelope ==
    (Returned /\ response.status = 200) =>
        /\ response.reply = "null" \/ IsString(response.reply)
        /\ response.hasClassification
        /\ \A k \in {"is_genuine", "category", "confidence", "reason"} :
               response.classification[k] # "undefined"

\* C3: for every string the classifier can return the classification step
\* yields a result that has a category.
CategoryAlwaysProduced ==
    parsed # NotYet => (parsed.type = "object" /\ parsed.f.category # "undefined")

\* index of the brace that closes the one opened before position i (0 when
\* there is none)
RECURSIVE ClosingBrace(_, _, _)
ClosingBrace(c, i, depth) ==
    IF i > Len(c) THEN 0
    ELSE IF c[i] = "{" THEN ClosingBrace(c, i + 1, depth + 1)
    ELSE IF c[i] = "}" THEN (IF depth = 1 THEN i ELSE ClosingBrace(c, i + 1, depth - 1))
    ELSE ClosingBrace(c, i + 1, depth)

\* the first balanced brace-delimited region of a content (empty when there
\* is none)
FirstBalancedRegion(c) ==
    LET opens == {i \in 1..Len(c) : c[i] = "{" /\ ClosingBrace(c, i + 1, 1) # 0} IN
    IF opens = {} THEN <<>>
    ELSE LET start == CHOOSE i \in opens : \A j \in opens : i <= j
         IN SubSeq(c, start, ClosingBrace(c, start + 1, 1))

\* the content between the fences of a content wrapped in a code fence
WithoutFence(c) ==
    LET t == SelectSeq(c, LAMBDA x : x # "NL") IN
    IF Len(t) >= 2 /\ t[1] = "FENCE" /\ t[Len(t)] = "FENCE"
    THEN SubSeq(t, 2, Len(t) - 1)
    ELSE c

\* the two-stage parse: the strict parse, then the first balanced region
TwoStageParse(c) ==
    LET strict == JSONparse(WithoutFence(c))
        region == FirstBalancedRegion(WithoutFence(c))
    IN IF strict.type # "SyntaxError" THEN strict
       ELSE IF region # <<>> /\ JSONparse(region).type # "SyntaxError" THEN JSONparse(region)
       ELSE DefaultResponse

\* C32: extractJsonResponse never throws: it returns the parsed payload when
\* the content is valid JSON, is wrapped in a code fence, or holds a balanced
\* brace-delimited JSON object inside other text (the first such region),
\* and the default response in every other case.
ExtractIsTwoStageParse ==
    parsed # NotYet => (parsed.type # "SyntaxError" /\ parsed = TwoStageParse(content))

\* C4: when the category is noise or error (unparseable classifier output)
\* the reply is null and no answer is generated, and the category that is
\* returned and logged is the classifier's, so error stays apart from noise.
SilentForNoiseAndError ==
    (Returned /\ classification.type = "object"
        /\ classification.f.category \in {"noise", "error"}) =>
        /\ response.status = 200
        /\ response.reply = "null"
        /\ generatorCalls = 0
        /\ result = NotYet
        /\ response.classification.category = classification.f.category
        /\ csvLog # <<>>
        /\ csvLog[Len(csvLog)].category = classification.f.category
        /\ csvLog[Len(csvLog)].response = "null"

SilentOnError ==
    /\ Returned
    /\ classification = DefaultResponse
    /\ response.classification.category = "error"

\* C5 as stated: for guidance the reply is the Hindi string when the
\* request's language is hindi and the English string otherwise.
GuidanceReplyByRequestLanguage ==
    (Returned /\ Classified /\ classification.f.category = "guidance") =>
        response.reply = IF request.language = "hindi" THEN HindiAck ELSE EnglishAck

\* C5 amended: for guidance the reply is the Hindi string when the request's
\* language is hindi or the request carries no language, and the English
\* string otherwise; nothing else of the request takes part.
GuidanceReplyByLanguage ==
    (Returned /\ Classified /\ classification.f.category = "guidance") =>
        /\ response.status = 200
        /\ generatorCalls = 0
        /\ response.reply = IF request.language \in {"hindi", "undefined"}
                            THEN HindiAck ELSE EnglishAck

GuidanceAcknowledged ==
    /\ Returned
    /\ classification.f.category = "guidance"
    /\ request.language = "english"
    /\ request.message = "haan sir"
    /\ request.recentTranscript # ""
    /\ response.reply = EnglishAck

\* C6: whenever a question is classified subject_based and both services
\* have answered, the response carries a reply that is a non-empty string, the
\* clarification request when the generator's answer is missing, null or empty.
SubjectReplyNonEmptyString ==
    (Returned /\ ~upstreamFailed /\ classification.f.category = "subject_based") =>
        /\ response.status = 200
        /\ IsString(response.reply) /\ response.reply # "empty"
        /\ result.f.answer \in {"undefined", "null", "empty"} => response.reply = Clarify

\* C7: the endpoint produces a failure response only when a call to the
\* classifier or to the generator fails.
FailureOnlyWhenUpstreamFails ==
    (Returned /\ response.status # 200) => upstreamFailed

\* the one message the chat owes the question in flight: the retry-later
\* message on failure, the notice for a null reply, the reply otherwise
OwedMessage ==
    IF pc = "sent" \/ response.status # 200 THEN {AssistantMessage(RetryLater)}
    ELSE IF response.reply = "null" THEN {SystemMessage(AskSubject)}
    ELSE IF response.reply \notin {"undefined", "empty", "false"}
    THEN {AssistantMessage(response.reply)}
    ELSE {}

UpstreamFailureHandled ==
    (upstreamFailed /\ pc \in {"responded", "idle"}) =>
        /\ response = FailureResponse
        /\ response.reply = "undefined"
        /\ result = NotYet
        /\ Len(csvLog) < asked
        /\ (pc = "idle" /\ caller = "ui") =>
               /\ Len(messages) >= 2
               /\ messages[Len(messages) - 1] = UserMessage(request.message)
               /\ messages[Len(messages)] = AssistantMessage(RetryLater)
               /\ ~isLoading

RetryShown ==
    /\ upstreamFailed
    /\ generatorCalls = 1
    /\ pc = "idle"
    /\ caller = "ui"
    /\ messages[Len(messages)] = AssistantMessage(RetryLater)


(***************************************************************************)
(* Transcript aggregation: useSonioxTranscription                          *)
(***************************************************************************)
\* Math.abs(existing.startTime - newFinal.startTime) < 0.5, in milliseconds
DedupWindowMs == 500

StartMs == {0, 250, 500}

\* tokens as the recognizer delivers them: { text, start_ms, end_ms, is_final }
RawToken(x, t, fin) == [text |-> x, start_ms |-> t, end_ms |-> t + 250, is_final |-> fin]

RawTokens ==
    {RawToken("a", t, TRUE) : t \in StartMs}
    \cup {RawToken("b", 0, TRUE), RawToken(" a", 250, TRUE), RawToken(" ", 0, TRUE),
          RawToken("a", 0, FALSE), RawToken("b", 500, FALSE), RawToken(" ", 250, FALSE)}

Batches == UNION {[1..n -> RawTokens] : n \in 0..MaxBatch}

\* result objects handed to onPartialResult; result.tokens may be missing
Results == {[hasTokens |-> TRUE, tokens |-> b] : b \in Batches} \cup {NoResult}

\* (token.text || '').trim().normalize('NFC')
TrimNormalize(x) ==
    CASE x = " a" -> "a"
      [] x = " " -> ""
      [] OTHER -> x

Abs(n) == IF n < 0 THEN 0 - n ELSE n

\* part_000 77-84: a recognizer token as a TranscriptSegment
Segment(token) ==
    [id |-> <<"segment", token.start_ms, token.end_ms,
              IF token.is_final THEN "f" ELSE "p">>,
     text |-> TrimNormalize(token.text),
     startTime |-> token.start_ms,
     endTime |-> token.end_ms,
     isFinal |-> token.is_final]

\* the provisional tokens of earlier calls are carried over as well
existingTokens(prev) == prev

\* part_000 74
existingFinals(prev) == SelectSeq(prev, LAMBDA seg : seg.isFinal)

incomingTokens(tokens) == [i \in 1..Len(tokens) |-> Segment(tokens[i])]

\* the finals of the batch, those without text included
incomingFinalsWithBlanks(tokens) ==
    SelectSeq(incomingTokens(tokens), LAMBDA seg : seg.isFinal)

\* part_000 87
incomingFinals(tokens) ==
    SelectSeq(incomingTokens(tokens), LAMBDA seg : seg.isFinal /\ seg.text # "")

\* a provisional token is dropped when the batch holds its final twin
incomingProvisionalWithoutTwins(tokens) ==
    SelectSeq(incomingTokens(tokens),
              LAMBDA seg : /\ ~seg.isFinal
                           /\ seg.text # ""
                           /\ ~\E i \in 1..Len(tokens) :
                                  /\ tokens[i].is_final
                                  /\ TrimNormalize(tokens[i].text) = seg.text
                                  /\ Abs(tokens[i].start_ms - seg.startTime) < DedupWindowMs)

\* part_000 88
incomingProvisional(tokens) ==
    SelectSeq(incomingTokens(tokens), LAMBDA seg : ~seg.isFinal /\ seg.text # "")

\* startTime is start_ms / 1000 held as a double, and so is the difference of
\* two start times: on the 50 ms grid up to 1 s these are the pairs 500 ms
\* apart whose difference evaluates to 0.49999999999999994 (0.7 - 0.2 and
\* 0.95 - 0.45); every other pair compares as its milliseconds do
RoundedBelowWindow == {<<200, 700>>, <<450, 950>>}

\* part_000 96: Math.abs(existing.startTime - newFinal.startTime) < 0.5
WithinDedupWindow(s, t) ==
    \/ Abs(s - t) < DedupWindowMs
    \/ <<s, t>> \in RoundedBelowWindow
    \/ <<t, s>> \in RoundedBelowWindow

\* the comparison of the start times turned round
isDuplicateOutsideWindow(allFinals, newFinal) ==
    \E i \in 1..Len(allFinals) :
        /\ allFinals[i].text = newFinal.text
        /\ Abs(allFinals[i].startTime - newFinal.startTime) > DedupWindowMs

\* part_000 94-97
isDuplicate(allFinals, newFinal) ==
    \E i \in 1..Len(allFinals) :
        /\ allFinals[i].text = newFinal.text
        /\ WithinDedupWindow(allFinals[i].startTime, newFinal.startTime)

\* part_000 91-101: the forEach over the incoming finals
RECURSIVE allFinals(_, _)
allFinals(finals, incoming) ==
    IF incoming = <<>> THEN finals
    ELSE allFinals(IF isDuplicate(finals, Head(incoming)) THEN finals
                   ELSE Append(finals, Head(incoming)),
                   Tail(incoming))

\* a sort that is not stable: a segment goes in front of its equals
RECURSIVE InsertBeforeEquals(_, _)
InsertBeforeEquals(sorted, seg) ==
    IF sorted = <<>> THEN <<seg>>
    ELSE IF sorted[Len(sorted)].startTime < seg.startTime THEN Append(sorted, seg)
    ELSE Append(InsertBeforeEquals(SubSeq(sorted, 1, Len(sorted) - 1), seg),
                sorted[Len(sorted)])

\* the position a segment takes in a list sorted by startTime, behind its equals
RECURSIVE InsertSorted(_, _)
InsertSorted(sorted, seg) ==
    IF sorted = <<>> THEN <<seg>>
    ELSE IF sorted[Len(sorted)].startTime <= seg.startTime THEN Append(sorted, seg)
    ELSE Append(InsertSorted(SubSeq(sorted, 1, Len(sorted) - 1), seg), sorted[Len(sorted)])

\* part_000 107: combined.sort((a, b) => a.startTime - b.startTime), a stable sort
RECURSIVE SortByStartTime(_)
SortByStartTime(combined) ==
    IF combined = <<>> THEN <<>>
    ELSE InsertSorted(SortByStartTime(SubSeq(combined, 1, Len(combined) - 1)),
                      combined[Len(combined)])

\* part_000 72-108 and 206-242: the updater passed to setTranscript
applyResult(prev, tokens) ==
    SortByStartTime(allFinals(existingFinals(prev), incomingFinals(tokens))
                    \o incomingProvisional(tokens))

\* the guard without its length test
hasTokenList(r) == r.hasTokens

\* part_000 69-71 and 203-205
hasTokens(r) == r.hasTokens /\ Len(r.tokens) > 0

\* the same tokens with start times moved by less than the dedup window
Jittered(r) ==
    {[hasTokens |-> TRUE, tokens |-> b] : b \in
        {b \in Batches :
            /\ r.hasTokens /\ Len(b) = Len(r.tokens) /\ b # r.tokens
            /\ \A i \in 1..Len(b) :
                   /\ b[i].text = r.tokens[i].text
                   /\ b[i].is_final = r.tokens[i].is_final
                   /\ Abs(b[i].start_ms - r.tokens[i].start_ms) < DedupWindowMs}}

\* the recognizer delivers a new result
emit(r) ==
    /\ delivery = "none"
    /\ Len(applyResult(transcript, r.tokens)) <= MaxTranscript
    /\ partialResult' = r
    /\ delivery' = "new"
    /\ lastOp' = "emit"
    /\ UNCHANGED <<transcript, triageVars, parseVars, viewVars, sessionVars, updateVars>>

\* part_000 69-110 and 203-244: the handler runs on the delivered result.  The
\* recognizer delivers finals at least once: it may deliver the result again,
\* unchanged or with jittered start times.
onPartialResult ==
    /\ delivery # "none"
    /\ transcript' = IF hasTokens(partialResult) THEN applyResult(transcript, partialResult.tokens)
                     ELSE transcript
    /\ lastOp' = "applyResult"
    /\ \/ delivery' = "none" /\ partialResult' = NoResult
       \/ delivery = "new" /\ delivery' = "same" /\ partialResult' = partialResult
       \/ /\ delivery = "new"
          /\ delivery' = "jittered"
          /\ partialResult' \in Jittered(partialResult)
          /\ Len(applyResult(transcript', partialResult'.tokens)) <= MaxTranscript
    /\ UNCHANGED <<triageVars, parseVars, viewVars, sessionVars, updateVars>>

\* the final tokens stay when the transcript is cleared
keptFinals(prev) == existingFinals(prev)

\* part_000 407: setTranscript([])
emptyTranscript(prev) == <<>>

\* part_000 405-408
clearTranscript ==
    /\ transcript' = emptyTranscript(transcript)
    /\ lastOp' = "clear"
    /\ delivery' = IF delivery = "none" THEN "none" ELSE "new"
    /\ UNCHANGED <<partialResult, triageVars, parseVars, viewVars, sessionVars, updateVars>>

NextTranscript ==
    \/ \E r \in Results : emit(r)
    \/ onPartialResult
    \/ clearTranscript

InitT == InitTriage /\ IdleParse /\ InitTranscript /\ IdleViews /\ Watching /\ IdleUpdates

SpecTranscript == InitT /\ [][NextTranscript]_vars

\* The recognizer delivering one token per result, with start times at
\* which the double arithmetic of the duplicate test rounds.
BoundaryStartMs == {200, 450, 700, 950}

BoundaryTokens ==
    {RawToken("a", t, TRUE) : t \in BoundaryStartMs}
    \cup {RawToken("b", 200, TRUE), RawToken("a", 200, FALSE), RawToken("b", 700, FALSE)}

BoundaryResults == {[hasTokens |-> TRUE, tokens |-> <<t>>] : t \in BoundaryTokens}

NextBoundary ==
    \/ \E r \in BoundaryResults : emit(r)
    \/ onPartialResult
    \/ clearTranscript

InitB == InitTriage /\ IdleParse /\ InitTranscript /\ IdleViews /\ Watching /\ IdleUpdates

SpecBoundary == InitB /\ [][NextBoundary]_vars


(***************************************************************************)
(* Views of the transcript: the chat context window and the sentences      *)
(***************************************************************************)
\* ChatDialog.tsx 60: videoTime - segment.startTime <= 200, in milliseconds
RecentHorizonMs == 200000

\* part_001 51: videoTime - segment.startTime <= 300, in milliseconds
FiveMinuteHorizonMs == 300000

\* TranscriptPanel.tsx 58: a gap of more than 2 seconds, in milliseconds
SentenceGapMs == 2000

ViewStartMs == {0, 1000, 4000, 100000, 200000}

\* "|" stands for the danda U+0964 and "||" for the double danda U+0965
ViewTexts == {"namaste", "bachchon|", "ma."}

ViewToken(x, t, fin) == [text |-> x, start_ms |-> t, end_ms |-> t + 1000, is_final |-> fin]

ViewSegments == {Segment(ViewToken(x, t, fin)) : x \in ViewTexts, t \in ViewStartMs, fin \in BOOLEAN}

\* transcripts in ascending order of start time
ViewTranscripts ==
    {t \in UNION {[1..n -> ViewSegments] : n \in 0..MaxTranscript} :
        \A i \in 1..Len(t) - 1 : t[i].startTime < t[i + 1].startTime}

\* positions of the video at which the student asks
ViewTimes == {1000, 200000, 205000, 300000, 305000}

\* the filter whose comparison leaves the boundary out
recentWindowStrict(t, referenceTime, horizon) ==
    SelectSeq(t, LAMBDA seg : referenceTime - seg.startTime < horizon)

\* ChatDialog.tsx 59-61 and part_001 50-52: the filter over the transcript
recentWindow(t, referenceTime, horizon) ==
    SelectSeq(t, LAMBDA seg : referenceTime - seg.startTime <= horizon)

\* recentSegments.map(s => s.text).join(' '): the texts in order
JoinTexts(segs) == [i \in 1..Len(segs) |-> segs[i].text]

\* ChatDialog.tsx 57-63
getRecentTranscript ==
    /\ recent' = [called |-> TRUE, horizon |-> RecentHorizonMs,
                  segments |-> recentWindow(transcript, videoTime, RecentHorizonMs),
                  text |-> JoinTexts(recentWindow(transcript, videoTime, RecentHorizonMs))]
    /\ UNCHANGED <<sentences, triageVars, parseVars, transcriptVars, sessionVars, updateVars>>

\* part_001 48-54: the earlier dialog's getRecentTranscript
getRecentTranscript300 ==
    /\ recent' = [called |-> TRUE, horizon |-> FiveMinuteHorizonMs,
                  segments |-> recentWindow(transcript, videoTime, FiveMinuteHorizonMs),
                  text |-> JoinTexts(recentWindow(transcript, videoTime, FiveMinuteHorizonMs))]
    /\ UNCHANGED <<sentences, triageVars, parseVars, transcriptVars, sessionVars, updateVars>>

\* the last character of a text of the model
LastChar(text) ==
    CASE text = "bachchon|" -> "|"
      [] text = "ma." -> "."
      [] OTHER -> "letter"

\* TranscriptPanel.tsx 55: /[.!?\u0964\u0965]$/
Terminators == {".", "!", "?", "|", "||"}

endsWithPunctuation(text) == LastChar(text) \in Terminators

\* TranscriptPanel.tsx 56
isLastSegment(t, index) == index = Len(t)

\* the gap test with the boundary let in
hasTimeGapFromTwoSeconds(t, index) ==
    index < Len(t) /\ t[index + 1].startTime - t[index].endTime >= SentenceGapMs

\* TranscriptPanel.tsx 57-58
hasSignificantTimeGap(t, index) ==
    index < Len(t) /\ t[index + 1].startTime - t[index].endTime > SentenceGapMs

\* TranscriptPanel.tsx 35-39: the variables of the loop
NoSentence ==
    [sentences |-> <<>>, currentSentence |-> <<>>, sentenceStartTime |-> 0, sentenceEndTime |-> 0]

\* TranscriptPanel.tsx 41-70: the forEach over the segments, from index on
RECURSIVE forEachSegment(_, _, _)
forEachSegment(t, index, acc) ==
    IF index > Len(t) THEN acc
    ELSE LET segment == t[index]
             text == TrimNormalize(segment.text)
             startTime == IF acc.currentSentence = <<>> THEN segment.startTime
                          ELSE acc.sentenceStartTime
             currentSentence == Append(acc.currentSentence, text)
         IN  IF text = "" THEN forEachSegment(t, index + 1, acc)
             ELSE IF \/ endsWithPunctuation(text)
                     \/ hasSignificantTimeGap(t, index)
                     \/ (isLastSegment(t, index) /\ segment.isFinal)
             THEN forEachSegment(t, index + 1,
                      [sentences |-> Append(acc.sentences,
                                            [text |-> currentSentence,
                                             startTime |-> startTime,
                                             endTime |-> segment.endTime,
                                             isFinal |-> segment.isFinal]),
                       currentSentence |-> <<>>,
                       sentenceStartTime |-> startTime,
                       sentenceEndTime |-> segment.endTime])
             ELSE forEachSegment(t, index + 1,
                      [sentences |-> acc.sentences,
                       currentSentence |-> currentSentence,
                       sentenceStartTime |-> startTime,
                       sentenceEndTime |-> segment.endTime])

\* the text left in the buffer is not shown
dropRemaining(acc) == acc.sentences

\* TranscriptPanel.tsx 72-80
addRemaining(acc) ==
    IF acc.currentSentence # <<>>
    THEN Append(acc.sentences, [text |-> acc.currentSentence,
                                startTime |-> acc.sentenceStartTime,
                                endTime |-> acc.sentenceEndTime,
                                isFinal |-> FALSE])
    ELSE acc.sentences

\* shows the final tokens only
processedFinals(t) ==
    IF Len(t) = 0 THEN <<>>
    ELSE addRemaining(forEachSegment(SelectSeq(t, LAMBDA seg : seg.isFinal), 1, NoSentence))

\* TranscriptPanel.tsx 32-83
processedTranscript(t) ==
    IF Len(t) = 0 THEN <<>> ELSE addRemaining(forEachSegment(t, 1, NoSentence))

\* the panel renders the transcript it is given
TranscriptPanel ==
    /\ sentences' = [called |-> TRUE, list |-> processedTranscript(transcript)]
    /\ UNCHANGED <<recent, triageVars, parseVars, transcriptVars, sessionVars, updateVars>>

\* a transcript and a position of the video, as the components receive them
InitViews ==
    /\ transcript \in ViewTranscripts
    /\ lastOp = "none"
    /\ partialResult = NoResult
    /\ delivery = "none"
    /\ IdleViews
    /\ videoSource = "local"
    /\ apiKey = TRUE
    /\ isTranscribing = TRUE
    /\ paused = FALSE
    /\ videoTime \in ViewTimes
    /\ simulation = NoSimulation
    /\ cleared = "nothing"
    /\ sonioxClient = "running"
    /\ orphans = NoOrphans
    /\ pendingStart = "none"

NextViews ==
    \/ getRecentTranscript
    \/ getRecentTranscript300
    \/ TranscriptPanel

InitV == InitTriage /\ IdleParse /\ InitViews /\ IdleUpdates

SpecViews == InitV /\ [][NextViews]_vars

\* part_000 412: Date.now() / 1000 when the stream started, in seconds since
\* 1970; later it is this plus the position of the stream
DateNowAtStartS == 1700000000

\* the spans the hook is asked for, in seconds
HookSeconds == {1, 250}

\* part_000 412-414: (now - segment.startTime) <= seconds, with now taken from
\* Date.now() and startTime counted from the start of the stream; the whole
\* seconds and the milliseconds of the difference are compared apart
withinSecondsOfNow(seg, seconds) ==
    LET whole == DateNowAtStartS + ((videoTime - seg.startTime) \div 1000)
        ms == (videoTime - seg.startTime) % 1000
    IN whole < seconds \/ (whole = seconds /\ ms = 0)

\* part_000 411-416: getRecentTranscript(seconds) of useSonioxTranscription
useSonioxGetRecentTranscript(seconds) ==
    /\ recent' = [called |-> TRUE, horizon |-> seconds * 1000,
                  segments |-> SelectSeq(transcript,
                                         LAMBDA seg : withinSecondsOfNow(seg, seconds)),
                  text |-> <<>>]
    /\ UNCHANGED <<sentences, triageVars, parseVars, transcriptVars, sessionVars, updateVars>>

NextHook == \E seconds \in HookSeconds : useSonioxGetRecentTranscript(seconds)

SpecHook == InitV /\ [][NextHook]_vars


(***************************************************************************)
(* The session: page.tsx, the two players and the transcription hook       *)
(***************************************************************************)
\* positions of the video, in milliseconds, one timer period apart
VideoTimes == {0, 3000}

\* part_000 328 and 373: the period of the simulation timer, and the length
\* given to a simulated segment (currentTime + 3)
SimulationPeriodMs == 3000

\* part_000 294-305 and 337-348: ten sample sentences each
sampleTranscripts == <<"s1", "s2", "s3", "s4", "s5", "s6", "s7", "s8", "s9", "s10">>
sampleTranscriptsYouTube == <<"y1", "y2", "y3", "y4", "y5", "y6", "y7", "y8", "y9", "y10">>

\* part_000 311-318 and 355-362; the Date.now() part of the id is left out
SimulatedSegment(samples, segmentIndex, currentTime) ==
    [id |-> <<"segment", segmentIndex>>,
     text |-> samples[segmentIndex + 1],
     startTime |-> currentTime,
     endTime |-> currentTime + SimulationPeriodMs,
     isFinal |-> TRUE]

\* results the recognizer delivers during a session
SessionResults ==
    {[hasTokens |-> TRUE, tokens |-> <<t>>] :
        t \in {RawToken("a", 0, TRUE), RawToken("b", 500, FALSE)}}

\* what a transcript holds
Holding(t) ==
    IF t = <<>> THEN "nothing"
    ELSE IF \A i \in 1..Len(t) : t[i].isFinal THEN "finals"
    ELSE IF \A i \in 1..Len(t) : ~t[i].isFinal THEN "provisional"
    ELSE "finals and provisional"

\* page.tsx 14-34 and part_000 25-32: the page before a video is selected
InitSession ==
    /\ videoSource = "none"
    /\ apiKey \in BOOLEAN
    /\ isTranscribing = FALSE
    /\ paused = TRUE
    /\ videoTime = 0
    /\ simulation = NoSimulation
    /\ cleared = "nothing"
    /\ sonioxClient = "none"
    /\ orphans = NoOrphans
    /\ pendingStart = "none"

\* The isTranscribing that the handleVideoPlay and handleVideoPause called by
\* the player close over.  LiveVideoPlayer rebuilds togglePlayPause whenever
\* onPlay or onPause change (LiveVideoPlayer.tsx 42-58).  The YouTube player
\* registers handleStateChange once, when the player is created (part_003
\* 59-83, 109-112), and keeps the onPlay and onPause of that render, in which
\* nothing was being transcribed.
closedOverIsTranscribing == IF videoSource = "youtube" THEN FALSE ELSE isTranscribing

\* part_000 378-403: what stopTranscription leaves in the refs.  A start that
\* is still awaited has no client in sonioxClientRef yet and goes on.
stopTranscription ==
    /\ simulation' = NoSimulation
    /\ sonioxClient' = "none"
    /\ isTranscribing' = FALSE
    /\ pendingStart' = IF pendingStart = "awaited" THEN "awaited, stopped" ELSE pendingStart

\* sources running without a ref
OrphanCount == Len(orphans.timers) + orphans.clients

\* page.tsx 37-44
handleSelectVideoSource(type) ==
    /\ videoSource = "none"
    /\ transcript' = emptyTranscript(transcript)
    /\ lastOp' = "clear"
    /\ delivery' = IF delivery = "none" THEN "none" ELSE "new"
    /\ cleared' = Holding(transcript)
    /\ videoSource' = type
    /\ videoTime' = 0
    /\ paused' = TRUE
    /\ UNCHANGED <<partialResult, apiKey, isTranscribing, simulation, sonioxClient, orphans,
                   pendingStart, triageVars, parseVars, viewVars, updateVars>>

\* page.tsx 47-56, with stopTranscription (part_000 378-403)
handleBackToSelection ==
    /\ videoSource # "none"
    /\ IF isTranscribing
       THEN stopTranscription
       ELSE UNCHANGED <<simulation, sonioxClient, isTranscribing, pendingStart>>
    /\ transcript' = emptyTranscript(transcript)
    /\ lastOp' = "clear"
    /\ delivery' = IF delivery = "none" THEN "none" ELSE "new"
    /\ cleared' = Holding(transcript)
    /\ videoSource' = "none"
    /\ videoTime' = 0
    /\ paused' = TRUE
    /\ UNCHANGED <<partialResult, apiKey, orphans, triageVars, parseVars, viewVars, updateVars>>

\* page.tsx 65-82, with startTranscription (part_000 35-54),
\* startTabAudioTranscription (152-164) and the two simulations (289-292,
\* 307-308, 332-353).  With a key the start sets isTranscribing and awaits
\* the capture, the import and the client; one start is awaited at a time.
\* A simulation assigns its timer to the ref without stopping what the ref
\* held.
handleVideoPlay ==
    /\ videoSource # "none"
    /\ paused
    /\ paused' = FALSE
    /\ IF closedOverIsTranscribing
       THEN UNCHANGED <<isTranscribing, simulation, orphans, pendingStart>>
       ELSE IF apiKey
       THEN /\ pendingStart \in {"none", "settled after stop"}
            /\ isTranscribing' = TRUE
            /\ pendingStart' = "awaited"
            /\ UNCHANGED <<simulation, orphans>>
       ELSE /\ isTranscribing' = TRUE
            /\ simulation' = [kind |-> videoSource, segmentIndex |-> 0, currentTime |-> 0,
                              spent |-> FALSE]
            /\ IF simulation.kind # "none"
               THEN /\ OrphanCount < MaxOrphans
                    /\ orphans' = [orphans EXCEPT !.timers = Append(@, simulation)]
               ELSE UNCHANGED orphans
            /\ UNCHANGED pendingStart
    /\ UNCHANGED <<videoSource, apiKey, videoTime, cleared, sonioxClient,
                   triageVars, parseVars, transcriptVars, viewVars, updateVars>>

\* part_000 55-147 and 165-285: the awaited capture, import and client start
\* settle.  The new client is assigned to sonioxClientRef without stopping
\* the one it held; a failure ends in the catch block.
startSettles ==
    /\ pendingStart \in {"awaited", "awaited, stopped"}
    /\ pendingStart' = IF pendingStart = "awaited" THEN "none" ELSE "settled after stop"
    /\ \/ /\ sonioxClient' = "running"
          /\ IF sonioxClient = "running"
             THEN /\ OrphanCount < MaxOrphans
                  /\ orphans' = [orphans EXCEPT !.clients = @ + 1]
             ELSE UNCHANGED orphans
          /\ UNCHANGED isTranscribing
       \/ \* the capture or the client fails: setIsTranscribing(false)
          /\ isTranscribing' = FALSE
          /\ UNCHANGED <<sonioxClient, orphans>>
    /\ UNCHANGED <<videoSource, apiKey, paused, videoTime, simulation, cleared,
                   triageVars, parseVars, transcriptVars, viewVars, updateVars>>

\* page.tsx 85-91, with stopTranscription (part_000 378-403)
handleVideoPause ==
    /\ videoSource # "none"
    /\ ~paused
    /\ paused' = TRUE
    /\ IF closedOverIsTranscribing
       THEN stopTranscription
       ELSE UNCHANGED <<simulation, sonioxClient, isTranscribing, pendingStart>>
    /\ UNCHANGED <<videoSource, apiKey, videoTime, cleared, orphans,
                   triageVars, parseVars, transcriptVars, viewVars, updateVars>>

\* LiveVideoPlayer.tsx 69-81 and part_003 187-200: a click on the progress bar
handleSeek(newTime) ==
    /\ videoSource # "none"
    /\ videoTime' = newTime
    /\ UNCHANGED <<videoSource, apiKey, isTranscribing, paused, simulation, cleared,
                   sonioxClient, orphans, pendingStart, triageVars, parseVars, transcriptVars,
                   viewVars, updateVars>>

\* LiveVideoPlayer.tsx 88-93 and part_003 136-142: the video plays on
handleTimeUpdate ==
    /\ videoSource # "none"
    /\ ~paused
    /\ videoTime + SimulationPeriodMs \in VideoTimes
    /\ videoTime' = videoTime + SimulationPeriodMs
    /\ UNCHANGED <<videoSource, apiKey, isTranscribing, paused, simulation, cleared,
                   sonioxClient, orphans, pendingStart, triageVars, parseVars, transcriptVars,
                   viewVars, updateVars>>

\* part_000 308-328: the timer callback of simulateTranscription
simulateTranscription ==
    /\ simulation.kind = "local"
    /\ IF ~paused /\ simulation.segmentIndex < Len(sampleTranscripts)
       THEN /\ Len(transcript) < MaxSimulated
            /\ transcript' = Append(transcript,
                                    SimulatedSegment(sampleTranscripts,
                                                     simulation.segmentIndex, videoTime))
            /\ simulation' = [simulation EXCEPT !.segmentIndex = @ + 1]
       ELSE /\ simulation.segmentIndex >= Len(sampleTranscripts)
            /\ simulation' = NoSimulation
            /\ UNCHANGED transcript
    /\ lastOp' = "simulate"
    /\ UNCHANGED <<partialResult, delivery, videoSource, apiKey, isTranscribing, paused,
                   videoTime, cleared, sonioxClient, orphans, pendingStart, triageVars, parseVars,
                   viewVars, updateVars>>

\* part_000 353-373: the timer callback of simulateYouTubeTranscription
simulateYouTubeTranscription ==
    /\ simulation.kind = "youtube"
    /\ IF simulation.segmentIndex < Len(sampleTranscriptsYouTube)
       THEN /\ Len(transcript) < MaxSimulated
            /\ transcript' = Append(transcript,
                                    SimulatedSegment(sampleTranscriptsYouTube,
                                                     simulation.segmentIndex,
                                                     simulation.currentTime))
            /\ simulation' = [simulation EXCEPT !.segmentIndex = @ + 1,
                                                !.currentTime = @ + SimulationPeriodMs]
       ELSE /\ simulation' = NoSimulation
            /\ UNCHANGED transcript
    /\ lastOp' = "simulate"
    /\ UNCHANGED <<partialResult, delivery, videoSource, apiKey, isTranscribing, paused,
                   videoTime, cleared, sonioxClient, orphans, pendingStart, triageVars, parseVars,
                   viewVars, updateVars>>

\* part_000 353-373 run by a timer that simulationIntervalRef no longer holds:
\* its else branch clears the timer the ref holds now, and the timer itself
\* keeps running
orphanedTimer(i) ==
    /\ i \in 1..Len(orphans.timers)
    /\ orphans.timers[i].kind = "youtube"
    /\ IF orphans.timers[i].segmentIndex < Len(sampleTranscriptsYouTube)
       THEN /\ Len(transcript) < MaxSimulated
            /\ transcript' = Append(transcript,
                                    SimulatedSegment(sampleTranscriptsYouTube,
                                                     orphans.timers[i].segmentIndex,
                                                     orphans.timers[i].currentTime))
            /\ orphans' = [orphans EXCEPT !.timers[i].segmentIndex = @ + 1,
                                          !.timers[i].currentTime = @ + SimulationPeriodMs]
            /\ UNCHANGED simulation
       ELSE /\ simulation' = NoSimulation
            /\ orphans' = [orphans EXCEPT !.timers[i].spent = TRUE]
            /\ UNCHANGED transcript
    /\ lastOp' = "simulate"
    /\ UNCHANGED <<partialResult, delivery, videoSource, apiKey, isTranscribing, paused,
                   videoTime, cleared, sonioxClient, pendingStart, triageVars, parseVars,
                   viewVars, updateVars>>

\* part_000 57-69 and 191-203: a client started by the hook delivers a result
recognize(r) ==
    /\ sonioxClient = "running" \/ orphans.clients > 0
    /\ emit(r)

NextSession ==
    \/ \E type \in {"local", "youtube"} : handleSelectVideoSource(type)
    \/ handleBackToSelection
    \/ handleVideoPlay
    \/ startSettles
    \/ handleVideoPause
    \/ \E newTime \in VideoTimes : handleSeek(newTime)
    \/ handleTimeUpdate
    \/ simulateTranscription
    \/ simulateYouTubeTranscription
    \/ \E i \in 1..MaxOrphans : orphanedTimer(i)
    \/ \E r \in SessionResults : recognize(r)
    \/ onPartialResult

InitS == InitTriage /\ IdleParse /\ InitTranscript /\ IdleViews /\ InitSession /\ IdleUpdates

SpecSession == InitS /\ [][NextSession]_vars


(***************************************************************************)
(* Questions asked while the video is transcribed: the dialog reads its    *)
(* context from the transcript of the session                              *)
(***************************************************************************)
\* ChatDialog.tsx 57-63 and 180: the context handed to the request, with no
\* board scanned
recentTranscriptOf(t) == <<JoinTexts(recentWindow(t, videoTime, RecentHorizonMs)), "">>

\* the result the recognizer delivers while questions are asked: a final
\* token and a provisional token of the same text, 250 ms later
ChatResult ==
    [hasTokens |-> TRUE, tokens |-> <<RawToken("a", 0, TRUE), RawToken("a", 250, FALSE)>>]

NextChat ==
    \/ \E m \in Messages : handleSendMessage(m, recentTranscriptOf(transcript), "hi")
    \/ POST
    \/ UpstreamRejects
    \/ \E c \in ClassifierResults : ClassifierResolves(c)
    \/ \E r \in GeneratorResults : GeneratorResolves(r)
    \/ handleResponse
    \/ fetchRejects
    \/ recognize(ChatResult)
    \/ onPartialResult

InitC == InitTriage /\ IdleParse /\ InitTranscript /\ IdleViews /\ Watching /\ IdleUpdates

SpecChat == InitC /\ [][NextChat]_vars


(***************************************************************************)
(* The transcript as React state: the setTranscript calls of the handlers  *)
(* are queued and applied by the next render, and the readers are handed   *)
(* the array of a render                                                   *)
(***************************************************************************)
\* results delivered back to back: two finals and a provisional token
UpdateResults ==
    {[hasTokens |-> TRUE, tokens |-> <<t>>] :
        t \in {RawToken("a", 0, TRUE), RawToken("b", 250, TRUE), RawToken("b", 500, FALSE)}}
    \cup {NoResult}

\* the handler computes the new list from the transcript of its render
closesOverTranscript(rendered, tokens) ==
    [kind |-> "value", tokens |-> <<>>, value |-> applyResult(rendered, tokens)]

\* part_000 72 and 206: setTranscript(prev => ...), a function of the
\* transcript that React holds when it applies the update
updater(rendered, tokens) == [kind |-> "function", tokens |-> tokens, value |-> <<>>]

\* part_000 407: setTranscript([]), a value
emptyList(prev) == [kind |-> "value", tokens |-> <<>>, value |-> emptyTranscript(prev)]

\* part_000 25: useState applies a queued update to the state it holds
applyUpdate(prev, update) ==
    IF update.kind = "function" THEN applyResult(prev, update.tokens) ELSE update.value

\* the queue applied in the order of the calls
RECURSIVE applyUpdates(_, _)
applyUpdates(prev, queue) ==
    IF queue = <<>> THEN prev
    ELSE applyUpdates(applyUpdate(prev, Head(queue).update), Tail(queue))

\* pushes the incoming tokens into prev and sorts prev
sortedInPrev(prev, update) ==
    IF update.kind = "function" THEN applyResult(prev, update.tokens) ELSE prev

\* part_000 74-107: what an update leaves in the array it was given as prev.
\* filter and the two spreads build new arrays, and sort runs on the array
\* built last; setTranscript([]) passes a new array.
leftInPrev(prev, update) == prev

\* part_000 69-110 and 203-244: the handler up to its setTranscript call
queueResult(r) ==
    /\ Len(updates) < MaxPending
    /\ Len(applyUpdates(transcript, Append(updates, [update |-> updater(transcript, r.tokens)])))
           <= MaxTranscript
    /\ updates' = IF hasTokens(r)
                  THEN Append(updates, [op |-> "applyResult", tokens |-> r.tokens,
                                        update |-> updater(transcript, r.tokens)])
                  ELSE updates
    /\ UNCHANGED <<snapshot, triageVars, parseVars, transcriptVars, viewVars, sessionVars>>

\* part_000 405-408: clearTranscript up to its setTranscript call
queueClear ==
    /\ Len(updates) < MaxPending
    /\ updates' = Append(updates, [op |-> "clear", tokens |-> <<>>,
                                   update |-> emptyList(transcript)])
    /\ UNCHANGED <<snapshot, triageVars, parseVars, transcriptVars, viewVars, sessionVars>>

\* React renders: the queued updates are applied in order; an array handed
\* to a reader before is the prev of the first update
render ==
    /\ updates # <<>>
    /\ transcript' = applyUpdates(transcript, updates)
    /\ updates' = <<>>
    /\ snapshot' = IF snapshot.held /\ snapshot.current
                   THEN [snapshot EXCEPT !.current = FALSE,
                                         !.array = leftInPrev(@, updates[1].update)]
                   ELSE snapshot
    /\ lastOp' = IF Len(updates) = 1 THEN "render of one update"
                 ELSE "render of several updates"
    /\ UNCHANGED <<partialResult, delivery, triageVars, parseVars, viewVars, sessionVars>>

\* TranscriptPanel.tsx 32-83 and ChatDialog.tsx 57-63: a reader is handed the
\* transcript of the latest render
readTranscript ==
    /\ snapshot' = [held |-> TRUE, current |-> TRUE, array |-> transcript,
                    seen |-> transcript]
    /\ UNCHANGED <<updates, triageVars, parseVars, transcriptVars, viewVars, sessionVars>>

NextUpdates ==
    \/ \E r \in UpdateResults : queueResult(r)
    \/ queueClear
    \/ render
    \/ readTranscript

InitU == InitTriage /\ IdleParse /\ InitTranscript /\ IdleViews /\ Watching /\ IdleUpdates

SpecUpdates == InitU /\ [][NextUpdates]_vars


(***************************************************************************)
(* Properties of the transcript aggregation                                *)
(***************************************************************************)
Range(seq) == {seq[i] : i \in 1..Len(seq)}

FinalCount(t) == Len(existingFinals(t))

\* every final of old is in new, unchanged and in the same relative order
FinalsKept(old, new) ==
    /\ SelectSeq(existingFinals(new), LAMBDA seg : seg \in Range(existingFinals(old)))
           = existingFinals(old)
    /\ FinalCount(new) >= FinalCount(old)

\* C9: an applyResult call keeps every final token of the transcript, with the
\* same text and times and in the same relative order, and never lowers the
\* number of final tokens.
FinalMonotonicity ==
    [][lastOp' = "applyResult" => FinalsKept(transcript, transcript')]_vars

\* a call has run on a transcript that already held finals from earlier calls
FinalsAccumulated ==
    /\ lastOp = "applyResult"
    /\ FinalCount(transcript) = MaxTranscript
    /\ \E i, j \in 1..Len(transcript) :
           i < j /\ transcript[i].startTime = transcript[j].startTime

\* the step is a second delivery of the result that the step before applied
Redelivery(kinds) ==
    /\ delivery \in kinds
    /\ lastOp = "applyResult"
    /\ lastOp' = "applyResult"

\* C10 as stated: applying the same batch again, with identical text and
\* start times within 0.5 s of the first delivery, leaves the number of final
\* tokens as it was after the first application.
RedeliveryWithinWindowKeepsFinalCount ==
    [][Redelivery({"same", "jittered"}) =>
          FinalCount(transcript') = FinalCount(transcript)]_vars

\* C10 amended: applying the same batch again with identical text and
\* identical start times leaves the number of final tokens as it was after
\* the first application.
RedeliveryKeepsFinalCount ==
    [][Redelivery({"same"}) => FinalCount(transcript') = FinalCount(transcript)]_vars

\* a batch with finals has been applied and is delivered a second time
FinalsRedelivered ==
    /\ delivery = "same"
    /\ lastOp = "applyResult"
    /\ Len(incomingFinals(partialResult.tokens)) = MaxBatch
    /\ FinalCount(transcript) > 1

ProvisionalCount(t) == Len(SelectSeq(t, LAMBDA seg : ~seg.isFinal))

\* the batch holds no provisional token
NoProvisional(tokens) == \A i \in 1..Len(tokens) : tokens[i].is_final

\* every token of the batch has empty or whitespace text
OnlyBlanks(tokens) == \A i \in 1..Len(tokens) : TrimNormalize(tokens[i].text) = ""

\* C11 as stated: after a call whose batch holds no provisional token, the
\* empty batch included, the transcript holds no provisional token.
ProvisionalVolatility ==
    [][(lastOp' = "applyResult" /\ partialResult.hasTokens
            /\ NoProvisional(partialResult.tokens)) =>
          ProvisionalCount(transcript') = 0]_vars

\* C11 amended: after a call whose batch holds at least one token and no
\* provisional token, the transcript holds no provisional token.
ProvisionalVolatilityNonEmptyBatch ==
    [][(lastOp' = "applyResult" /\ hasTokens(partialResult)
            /\ NoProvisional(partialResult.tokens)) =>
          ProvisionalCount(transcript') = 0]_vars

\* a batch of finals only has been applied and has left finals behind
FinalsOnlyBatchApplied ==
    /\ lastOp = "applyResult"
    /\ delivery = "same"
    /\ hasTokens(partialResult)
    /\ NoProvisional(partialResult.tokens)
    /\ FinalCount(transcript) > 1
    /\ ProvisionalCount(transcript) = 0

\* an incoming final matches a final the transcript held before the call
DuplicateOfExisting(prev, newFinal) ==
    \E i \in 1..Len(prev) :
        /\ prev[i].isFinal
        /\ prev[i].text = newFinal.text
        /\ Abs(prev[i].startTime - newFinal.startTime) < DedupWindowMs

\* the incoming finals that match no final held before the call
NotInTranscript(prev, tokens) ==
    SelectSeq(incomingFinals(tokens), LAMBDA seg : ~DuplicateOfExisting(prev, seg))

\* C13: an incoming final is skipped exactly when a final that the transcript
\* held before the call has the same text and a start time less than 0.5 s
\* away; every other incoming final with text is inserted.
SkippedOnlyIfInTranscript ==
    [][(lastOp' = "applyResult" /\ hasTokens(partialResult)) =>
          existingFinals(transcript') =
              SortByStartTime(existingFinals(transcript)
                              \o NotInTranscript(transcript, partialResult.tokens))]_vars

\* C14: after a call the transcript is the finals it held before, the finals
\* of the batch that match none of those, and the provisional tokens of the
\* batch that have text, in ascending order of start time.
TranscriptAfterApply ==
    [][(lastOp' = "applyResult" /\ hasTokens(partialResult)) =>
          transcript' =
              SortByStartTime(existingFinals(transcript)
                              \o NotInTranscript(transcript, partialResult.tokens)
                              \o incomingProvisional(partialResult.tokens))]_vars

\* C37: all tokens in the transcript have pairwise distinct ids in every
\* reachable state (the ids are the keys of the displayed list).
DistinctIds ==
    \A i, j \in 1..Len(transcript) : i # j => transcript[i].id # transcript[j].id

\* C15: no token of the transcript has empty text after trimming.
NoBlankToken ==
    \A i \in 1..Len(transcript) : TrimNormalize(transcript[i].text) # ""

\* a batch with a blank final and a blank provisional token has been applied
BlankTokensDropped ==
    /\ lastOp = "applyResult"
    /\ delivery = "same"
    /\ \E i, j \in 1..Len(partialResult.tokens) :
           /\ TrimNormalize(partialResult.tokens[i].text) = ""
           /\ TrimNormalize(partialResult.tokens[j].text) # ""
    /\ \E i \in 1..Len(partialResult.tokens) :
           /\ TrimNormalize(partialResult.tokens[i].text) = ""
           /\ ~partialResult.tokens[i].is_final
    /\ transcript # <<>>

\* C16 as stated: a result without a token list, with an empty list or with
\* blank tokens only leaves the transcript as it was.
BlankBatchIsNoOp ==
    [][(lastOp' = "applyResult" /\ OnlyBlanks(partialResult.tokens)) =>
          transcript' = transcript]_vars

\* C16 amended: a result without a token list or with an empty list leaves
\* the transcript as it was; a batch of blank tokens only appends nothing and
\* keeps the finals, and removes the provisional tokens.
BlankBatchAppendsNothing ==
    [][(lastOp' = "applyResult" /\ OnlyBlanks(partialResult.tokens)) =>
          IF Len(partialResult.tokens) = 0 THEN transcript' = transcript
          ELSE transcript' = existingFinals(transcript)]_vars

\* an empty batch has been applied to a transcript with provisional tokens
EmptyBatchApplied ==
    /\ lastOp = "applyResult"
    /\ delivery = "same"
    /\ partialResult.hasTokens
    /\ partialResult.tokens = <<>>
    /\ ProvisionalCount(transcript) > 0
    /\ FinalCount(transcript) > 0


(***************************************************************************)
(* Properties of the views                                                 *)
(***************************************************************************)
\* the positions of the tokens of t inside the window
InWindow(t, referenceTime, horizon) ==
    {i \in 1..Len(t) : referenceTime - t[i].startTime <= horizon}

\* the k-th smallest member of a set of positions
Kth(positions, k) ==
    CHOOSE i \in positions : Cardinality({j \in positions : j <= i}) = k

\* C18: the window is exactly the tokens whose start time lies no more than
\* the horizon before the reference time, in the order of the transcript.
WindowIsExact ==
    recent.called =>
        LET positions == InWindow(transcript, videoTime, recent.horizon)
        IN  /\ Len(recent.segments) = Cardinality(positions)
            /\ \A k \in 1..Len(recent.segments) :
                   recent.segments[k] = transcript[Kth(positions, k)]

\* C35: the transcript context sent with a question is exactly the texts,
\* joined in the order of the transcript, of the tokens whose startTime is
\* within the last 2 minutes (120 seconds) of the current video time.
ContextIsLastTwoMinutes ==
    (recent.called /\ recent.horizon = RecentHorizonMs) =>
        LET lastTwoMinutes ==
                SelectSeq(transcript, LAMBDA seg : videoTime - seg.startTime <= 120000)
        IN recent.text = [i \in 1..Len(lastTwoMinutes) |-> lastTwoMinutes[i].text]

\* C34: the hook's getRecentTranscript(seconds) returns exactly the tokens
\* of the transcript whose startTime, counted from the start of the stream,
\* lies within the last `seconds` seconds, in the order of the transcript.
HookWindowIsExact ==
    recent.called =>
        recent.segments =
            SelectSeq(transcript,
                      LAMBDA seg : /\ seg.startTime <= videoTime
                                   /\ videoTime - seg.startTime <= recent.horizon)

\* tokens at 0 s, 100 s and 200 s asked about at 205 s: the tokens at 100 s and
\* 200 s are returned
WindowAtBoundary ==
    /\ recent.called
    /\ videoTime = 205000
    /\ Len(transcript) = 3
    /\ transcript[1].startTime = 0
    /\ transcript[2].startTime = 100000
    /\ transcript[3].startTime = 200000
    /\ recent.segments = <<transcript[2], transcript[3]>>

\* the closing rule: a terminator, a gap of more than 2 s to the next token,
\* or a final token at the end of the transcript
ClosesAt(t, i) ==
    \/ LastChar(t[i].text) \in Terminators
    \/ i < Len(t) /\ t[i + 1].startTime - t[i].endTime > 2000
    \/ i = Len(t) /\ t[i].isFinal

Closers(t) == {i \in 1..Len(t) : ClosesAt(t, i)}

\* the last position before i at which a sentence closes, 0 if there is none
LastCloserBefore(t, i) ==
    LET before == {j \in Closers(t) : j < i}
    IN  IF before = {} THEN 0 ELSE CHOOSE j \in before : \A k \in before : k <= j

\* the sentence made of the tokens from position first to position last
SentenceOf(t, first, last, final) ==
    [text |-> [k \in 1..(last - first + 1) |-> t[first + k - 1].text],
     startTime |-> t[first].startTime,
     endTime |-> t[last].endTime,
     isFinal |-> final]

\* C19: a sentence is closed at a token exactly when the closing rule holds
\* there: the closed sentences are, in order, the runs of tokens that end at
\* the positions of the rule, and at most one more sentence follows them.
SentencesCloseByRule ==
    sentences.called =>
        LET closers == Closers(transcript)
            n == Cardinality(closers)
        IN  /\ Len(sentences.list) \in {n, n + 1}
            /\ \A k \in 1..n :
                   LET c == Kth(closers, k)
                   IN  sentences.list[k] =
                           SentenceOf(transcript, LastCloserBefore(transcript, c) + 1, c,
                                      transcript[c].isFinal)

\* the two tokens of the example, [0 s, 1 s] and [1 s, 2 s], the second one
\* ending with a danda, give one sentence from 0 s to 2 s
OneSentenceToTwoSeconds ==
    /\ sentences.called
    /\ Len(transcript) = 2
    /\ transcript[1].text = "namaste" /\ transcript[1].startTime = 0
    /\ transcript[2].text = "bachchon|" /\ transcript[2].startTime = 1000
    /\ Len(sentences.list) = 1
    /\ sentences.list[1].text = <<"namaste", "bachchon|">>
    /\ sentences.list[1].startTime = 0
    /\ sentences.list[1].endTime = 2000

\* C20: the tokens after the last closed sentence are emitted as one more
\* sentence, marked non-final; when there are none, nothing is added.
TrailingSentence ==
    sentences.called =>
        LET n == Cardinality(Closers(transcript))
            last == LastCloserBefore(transcript, Len(transcript) + 1)
        IN  IF last < Len(transcript)
            THEN /\ Len(sentences.list) = n + 1
                 /\ sentences.list[n + 1] =
                        SentenceOf(transcript, last + 1, Len(transcript), FALSE)
            ELSE Len(sentences.list) = n

\* a closed sentence is followed by tokens that no rule closes
TrailingEmitted ==
    /\ sentences.called
    /\ Len(transcript) = 3
    /\ Closers(transcript) = {1}
    /\ Len(sentences.list) = 2
    /\ ~sentences.list[2].isFinal
    /\ Len(sentences.list[2].text) = 2

\* the texts of the first k sentences of a list, one after the other
RECURSIVE TextsUpTo(_, _)
TextsUpTo(list, k) ==
    IF k = 0 THEN <<>> ELSE TextsUpTo(list, k - 1) \o list[k].text

\* C38: the sentences partition the transcript: every token with non-empty
\* text is part of exactly one sentence, in the order of the transcript, so
\* that the texts of the sentences joined are the texts of the tokens
\* joined; each sentence starts at its first token's startTime and ends at
\* its last token's endTime.
SentencesPartition ==
    sentences.called =>
        LET list == sentences.list
            spoken == SelectSeq(transcript, LAMBDA seg : TrimNormalize(seg.text) # "")
        IN  /\ TextsUpTo(list, Len(list)) = [i \in 1..Len(spoken) |-> spoken[i].text]
            /\ \A k \in 1..Len(list) :
                   /\ list[k].text # <<>>
                   /\ list[k].startTime = spoken[Len(TextsUpTo(list, k - 1)) + 1].startTime
                   /\ list[k].endTime = spoken[Len(TextsUpTo(list, k))].endTime

\* two sentences of two tokens and one, the second one provisional
TwoSentencesOfThreeTokens ==
    /\ sentences.called
    /\ Len(transcript) = 3
    /\ ~transcript[3].isFinal
    /\ Len(sentences.list) = 2
    /\ Len(sentences.list[1].text) = 2
    /\ sentences.list[2].startTime = transcript[3].startTime


(***************************************************************************)
(* Properties of the session                                               *)
(***************************************************************************)
\* C12: whichever source appended the tokens, a token with an earlier start
\* time stands before every token with a later one.
OrderInvariant ==
    \A i, j \in 1..Len(transcript) :
        transcript[i].startTime < transcript[j].startTime => i < j

\* C17: whenever a video source is selected or the user goes back to the
\* selection, the transcript is empty afterwards, whatever it held.
SourceChangeClears ==
    [][videoSource' # videoSource => transcript' = <<>>]_vars

\* going back to the selection has removed finals and provisional tokens
ClearedOnBack ==
    /\ videoSource = "none"
    /\ lastOp = "clear"
    /\ cleared = "finals and provisional"
    /\ transcript = <<>>

\* the sources that can still append to the transcript
FeedingSources ==
    (IF simulation.kind # "none" THEN 1 ELSE 0)
    + (IF sonioxClient = "running" THEN 1 ELSE 0)
    + Cardinality({i \in 1..Len(orphans.timers) : ~orphans.timers[i].spent})
    + orphans.clients

\* C23: at most one recognition source, a Soniox client or a simulation
\* timer, feeds the transcript at any time, over any sequence of play and
\* pause events, for local and for YouTube playback.
AtMostOneSource == FeedingSources <= 1

\* C29: the video plays linearly: the playback position moves only by
\* advancing while the video plays (and starts at zero for a newly selected
\* video); no operation of a player moves it elsewhere.
LinearPlayback ==
    [][videoTime' # videoTime =>
           \/ ~paused /\ videoTime' = videoTime + SimulationPeriodMs
           \/ videoSource' # videoSource /\ videoTime' = 0]_vars

\* the timers of the simulation, the one in the ref first
Timers == (IF simulation.kind = "none" THEN <<>> ELSE <<simulation>>) \o orphans.timers

\* C30: without a Soniox API key a start creates no Soniox client; its timer
\* emits at most ten segments, in sample order, and is cleared by the tick
\* that finds the samples used up.
SimulationEndsItsTimer ==
    ~apiKey =>
        /\ sonioxClient = "none"
        /\ orphans.clients = 0
        /\ \A i \in 1..Len(Timers) :
               /\ Timers[i].segmentIndex <= Len(sampleTranscripts)
               /\ ~Timers[i].spent

\* C36: if stopTranscription runs while a start is still awaited, then once
\* both have finished no Soniox client is left running and isTranscribing is
\* false (so that no recognition result reaches the transcript) until the
\* next start.
StopWinsOverPendingStart ==
    pendingStart = "settled after stop" => (sonioxClient = "none" /\ ~isTranscribing)

\* C31: whenever the video is paused while a recognition source is active,
\* that source is stopped: once the pause has been handled no Soniox client
\* and no simulation timer remains active and isTranscribing is false, for
\* local and for YouTube playback.
PauseStopsSource ==
    [][(~paused /\ paused' /\ videoSource' = videoSource /\ FeedingSources > 0) =>
           (FeedingSources' = 0 /\ ~isTranscribing')]_vars


(***************************************************************************)
(* Properties of the queued updates                                        *)
(***************************************************************************)
\* the calls of a queue made one after the other on a transcript
RECURSIVE InArrivalOrder(_, _)
InArrivalOrder(t, calls) ==
    IF calls = <<>> THEN t
    ELSE InArrivalOrder(IF Head(calls).op = "clear" THEN <<>>
                        ELSE applyResult(t, Head(calls).tokens),
                        Tail(calls))

\* the final tokens with text that the calls after the last clear delivered
DeliveredFinals(calls) ==
    UNION {{Segment(calls[i].tokens[k]) : k \in 1..Len(calls[i].tokens)} :
              i \in {j \in 1..Len(calls) : \A l \in j..Len(calls) : calls[l].op # "clear"}}

\* the transcript holds the token, or the equal final it was dropped for
Held(t, seg) ==
    \E i \in 1..Len(t) :
        /\ t[i].isFinal
        /\ t[i].text = seg.text
        /\ Abs(t[i].startTime - seg.startTime) < DedupWindowMs

\* C21: applyResult and clear calls delivered back to back are applied one
\* at a time against the latest transcript: the render leaves the transcript
\* that the calls give when made one after the other in their order of
\* arrival, and it holds every final token of the results delivered after
\* the last clear.
UpdatesAppliedInOrder ==
    [][(updates # <<>> /\ updates' = <<>>) =>
           /\ transcript' = InArrivalOrder(transcript, updates)
           /\ \A seg \in DeliveredFinals(updates) :
                  (seg.isFinal /\ seg.text # "") => Held(transcript', seg)]_vars

\* two results were delivered between two renders and both finals are held
TwoResultsInOneRender ==
    /\ lastOp = "render of several updates"
    /\ updates = <<>>
    /\ Len(transcript) = 2
    /\ transcript[1].text = "a" /\ transcript[1].isFinal
    /\ transcript[2].text = "b" /\ transcript[2].isFinal

InFlight == pc # "idle" /\ caller = "ui"

\* C24: at most one question is in flight per chat session: from the
\* submission of a question until its response or failure has been handled
\* no further question is submitted.
OneQuestionInFlight == [][InFlight => asked' = asked]_vars

\* a second question was asked and is being classified while the dialog loads
SecondQuestionInFlight ==
    /\ InFlight
    /\ pc = "await_classifier"
    /\ asked = 2
    /\ isLoading

\* the stages of a request in their order; a failure ends the request from
\* any stage after its arrival
LifecycleSteps ==
    {<<"idle", "sent">>, <<"sent", "await_classifier">>,
     <<"await_classifier", "await_generator">>, <<"await_classifier", "responded">>,
     <<"await_generator", "responded">>, <<"responded", "idle">>, <<"sent", "idle">>}

\* C25: a request passes Received, Classified, Answered or Acknowledged/Silent
\* and Terminal in this order and once: it calls the classifier once, on
\* arrival; it calls the generator only in the step that has obtained and
\* parsed the classifier's output; and it returns its response only when the
\* branch chosen by the category has finished.
QuestionLifecycle ==
    [][/\ pc' # pc => <<pc, pc'>> \in LifecycleSteps
       /\ classifierCalls' > classifierCalls => (pc = "sent" /\ classifierCalls' = 1)
       /\ generatorCalls' > generatorCalls =>
              /\ pc = "await_classifier"
              /\ classification'.type = "object"
              /\ generatorCalls' = 1
       /\ (response' # response /\ response'.status = 200) =>
              /\ pc' = "responded"
              /\ classifierCalls' = 1
              /\ classification'.type = "object"
              /\ IF callsExpensiveModel(classification')
                 THEN pc = "await_generator" /\ generatorCalls' = 1
                      /\ result'.type = "object"
                 ELSE pc = "await_classifier" /\ generatorCalls' = 0
                      /\ result' = NotYet]_vars

\* an answered question: classified, then generated, then returned
AnsweredAfterBothCalls ==
    /\ pc = "responded"
    /\ response.status = 200
    /\ classifierCalls = 1
    /\ generatorCalls = 1
    /\ classification.f.category = "subject_based"
    /\ result.type = "object"

\* the dialog has handled the failure of its question in this step
FailureHandled ==
    /\ InFlight
    /\ pc' = "idle"
    /\ pc = "sent" \/ response.status # 200

\* C27: processing a question never changes the transcript, whatever the
\* outcome, and a failed question leaves the dialog able to submit the next.
QuestionLeavesTranscript ==
    [][/\ triageVars' # triageVars => transcript' = transcript
       /\ FailureHandled => (~isLoading' /\ \A m \in Messages : handleSubmit(m)')]_vars

\* a second question is being processed after a failed first one, while the
\* transcript holds a final and a provisional token
NextQuestionAfterFailure ==
    /\ asked = 2
    /\ pc = "responded"
    /\ response.status = 200
    /\ Len(messages) = 3
    /\ messages[2] = AssistantMessage(RetryLater)
    /\ Len(transcript) = 2

\* how often a segment occurs in a list
Occurrences(list, seg) == Cardinality({i \in 1..Len(list) : list[i] = seg})

\* C39: de-duplication applies to final tokens only: every non-empty
\* provisional token of a batch is in the transcript after the batch has been
\* applied, also when a final token of the same text and a start time within
\* 0.5 s is there, and a question asked then carries the texts of all the
\* tokens of the window, the repeated words included.
ProvisionalNotDeduplicated ==
    [][/\ (delivery # "none" /\ delivery' # delivery /\ partialResult.hasTokens) =>
              \A i \in 1..Len(partialResult.tokens) :
                  LET tok == partialResult.tokens[i] IN
                  (~tok.is_final /\ TrimNormalize(tok.text) # "") =>
                      Occurrences(transcript', Segment(tok)) >=
                          Cardinality({j \in 1..Len(partialResult.tokens) :
                                           partialResult.tokens[j] = tok})
       /\ (asked' > asked /\ caller' = "ui") =>
              request'.recentTranscript =
                  [i \in 1..Len(transcript) |-> transcript[i].text]]_vars

\* a question was sent with the same word twice in its context, once from a
\* final and once from a provisional token 250 ms later
SameWordTwiceInContext ==
    /\ caller = "ui"
    /\ request.recentTranscript = <<"a", "a">>
    /\ Len(transcript) = 2
    /\ transcript[1].isFinal /\ ~transcript[2].isFinal
    /\ transcript[1].text = transcript[2].text
    /\ transcript[2].startTime - transcript[1].startTime < DedupWindowMs

\* the requests the dialog can build from what the student types now, the
\* position of the video, the transcript window, the language and the board
CurrentInputs(m) ==
    {[message |-> m, videoTimestamp |-> videoTime, recentTranscript |-> ctx[1],
      language |-> l, pdfContext |-> ctx[2]] : ctx \in Contexts, l \in {"hindi", "english"}}

\* the response as a function of the request and of what the two services
\* returned for it, and of nothing else
Routed(req, failed, c, r) ==
    IF failed \/ c.type # "object" THEN FailureResponse
    ELSE IF c.f.category = "subject_based"
    THEN (IF r.type # "object" THEN FailureResponse
          ELSE OkResponse(IF Truthy(r.f.answer) THEN r.f.answer ELSE Clarify, c))
    ELSE IF c.f.category = "guidance"
    THEN OkResponse(IF req.language = "english" THEN EnglishAck ELSE HindiAck, c)
    ELSE OkResponse("null", c)

\* C28: a question is evaluated with no memory of earlier exchanges: the
\* request carries the current message, video position, transcript window,
\* language and board context only, and its response is determined by the
\* request and the outputs of the services, whatever was asked before.
NoMemoryOfExchanges ==
    [][/\ (asked' > asked /\ caller' = "ui") =>
              \E m \in Messages :
                  /\ messages' = Append(messages, UserMessage(m))
                  /\ request' \in CurrentInputs(m)
       /\ (pc # "responded" /\ pc' = "responded") =>
              response' = Routed(request, upstreamFailed', classification', result')]_vars

\* the second question of a conversation was routed after the first one was
\* answered
RoutedAfterEarlierAnswer ==
    /\ asked = 2
    /\ caller = "ui"
    /\ pc = "responded"
    /\ Len(messages) = 3
    /\ messages[2].role = "assistant"
    /\ messages[2].content # RetryLater
    /\ response.status = 200

\* C26: every submitted question reaches a terminal outcome and the dialog's
\* loading state is cleared, even when a call to the service never settles.
LoadingEventuallyCleared == isLoading ~> ~isLoading


====
